---- MODULE Spec2Model ----
(***************************************************************************)
(* Time Keeper v2 (src/time_keeper_v2.py): the session lifecycle of a user *)
(* record (clock_in, clock_out), the read-only displays (show_status,      *)
(* show_summary, list_all_users_summary, time_report) and the project log  *)
(* (load_data, ensure_user), as a state machine.                           *)
(*                                                                         *)
(* Representation.                                                         *)
(*   - A datetime is a record [sec, us]: seconds since an arbitrary epoch  *)
(*     and the microsecond part.                                           *)
(*   - A value stored under a timestamp key of the JSON log is a record    *)
(*     [kind, sec]: kind "iso" is a string datetime.fromisoformat accepts  *)
(*     (the second-precision text of second sec), "bad" a non-empty string *)
(*     it rejects, "empty" the string "", "none" JSON null / Python None,  *)
(*     "absent" a key that is missing from the dict.                       *)
(*   - duration_minutes is kept in hundredths of a minute (an integer):    *)
(*     round(x, 2) yields a multiple of 0.01.  Sums of durations are the   *)
(*     exact sums of these hundredths; the binary floating point error of  *)
(*     Python's sum is not modelled, and total_hours (a second rounding of *)
(*     that float) is not part of the modelled output.                     *)
(***************************************************************************)
EXTENDS Integers, Sequences, FiniteSets, TLC

VARIABLES
    data,   \* the in-memory project log: [project, users]
    file,   \* the project's JSON log file on disk
    now,    \* the wall clock, in whole seconds (datetime.now() reads it)
    out,    \* what the last operation printed or raised
    hist    \* history, per user: what clock_in / clock_out did to a fresh record

vars == <<data, file, now, out, hist>>

----------------------------------------------------------------------------
(* Bounds and sample inputs *)

\* clock_out is explored while the log holds fewer than MaxSessions sessions
\* in all
MaxSessions == 2

\* seconds in timedelta(days=1)
SecondsPerDay == 86400

Usernames == {"ana", "bob"}

ProjectNames == {"demo"}

\* values the wall clock takes in the lifecycle specification
ClockSecs == {0, 100}

\* microsecond parts datetime.now() may return
SubSeconds == {0, 500000}

\* longest sessions list the report specification starts from
MaxReportLen == 3

\* longest project name given to slugify
MaxNameLen == 3

\* the characters project names are made of in the slugify specification: an
\* upper-case and a lower-case letter, a digit, space, underscore, hyphen, a
\* symbol and a tab
SlugAlphabet == {"A", "b", "7", " ", "_", "-", "!", "\t"}

\* the report windows offered by report_menu
ReportDays == {1, 7, 30}

----------------------------------------------------------------------------
(* Values *)

NoneVal == [kind |-> "none", sec |-> 0]
Absent  == [kind |-> "absent", sec |-> 0]
Empty   == [kind |-> "empty", sec |-> 0]
Bad     == [kind |-> "bad", sec |-> 0]
Iso(s)  == [kind |-> "iso", sec |-> s]

\* dict.get(key): None when the key is missing
Get(v) == IF v.kind = "absent" THEN NoneVal ELSE v

\* `x is None`
IsNone(v) == v.kind = "none"

\* truth value of a str-or-None
Truthy(v) == v.kind \in {"iso", "bad"}

\* `a or b`
Or(a, b) == IF Truthy(a) THEN a ELSE b

\* datetime.fromisoformat(v) raises for anything but a well-formed string
Parses(v) == v.kind = "iso"

\* datetime.fromisoformat(v), for a v it accepts
fromisoformat(v) == [sec |-> v.sec, us |-> 0]

\* dt.isoformat(timespec="seconds"): the microseconds are dropped
isoformat(dt) == Iso(dt.sec)

\* (a - b).total_seconds() of two datetimes without microseconds
total_seconds(a, b) == a.sec - b.sec

\* mutant: > where the code has >=
DtGT(a, b) == a.sec > b.sec \/ (a.sec = b.sec /\ a.us > b.us)

\* a >= b on datetimes
DtGE(a, b) == a.sec > b.sec \/ (a.sec = b.sec /\ a.us >= b.us)

\* dt - timedelta(days=days)
MinusDays(dt, days) == [sec |-> dt.sec - days * SecondsPerDay, us |-> dt.us]

\* mutant: the duration truncated instead of rounded
TruncMinutes(seconds) == (5 * seconds) \div 3

\* round(seconds / 60, 2), in hundredths of a minute.  seconds/60 in
\* hundredths is 5*seconds/3, never half-way between two integers, so the
\* nearest one is floor((5*seconds + 1) / 3).
RoundMinutes(seconds) == (5 * seconds + 1) \div 3

NewUser == [sessions |-> <<>>, active_session |-> NoneVal]


EmptyUsers == [u \in {} |-> NewUser]

NoFile == [exists |-> FALSE, has_project |-> FALSE, project |-> "",
           has_users |-> FALSE, users |-> EmptyUsers]

LogFile(project, users) ==
    [exists |-> TRUE, has_project |-> TRUE, project |-> project,
     has_users |-> TRUE, users |-> users]

\* a session as clock_out writes it, and as a file may hold it
Session(start, end, minutes) ==
    [start |-> start, end |-> end, duration_minutes |-> minutes]

\* Log files found on disk when the program starts: none, or a file that was
\* edited by hand.  HandEdited1: ana's open session starts in the future and
\* bob's active_session is not a timestamp.  HandEdited2: ana's
\* active_session is the empty string and her one session has no "end" key.
HandEdited1 ==
    LogFile("demo", [u \in {"ana", "bob"} |->
        IF u = "ana" THEN [sessions |-> <<>>, active_session |-> Iso(1000)]
                     ELSE [sessions |-> <<>>, active_session |-> Bad]])

HandEdited2 ==
    LogFile("demo", [u \in {"ana"} |->
        [sessions |-> <<Session(Iso(0), Absent, 50)>>, active_session |-> Empty]])

InitFiles == {NoFile, HandEdited1, HandEdited2}

\* Older log files, for the persistence specification: one without the
\* "users" key, one without the "project" key, and the empty object {}
NoUsersKey ==
    [exists |-> TRUE, has_project |-> TRUE, project |-> "demo",
     has_users |-> FALSE, users |-> EmptyUsers]

NoProjectKey ==
    [exists |-> TRUE, has_project |-> FALSE, project |-> "",
     has_users |-> TRUE,
     users |-> [u \in {"ana"} |-> [sessions |-> <<>>, active_session |-> Iso(0)]]]

EmptyObject ==
    [exists |-> TRUE, has_project |-> FALSE, project |-> "",
     has_users |-> FALSE, users |-> EmptyUsers]

PersistFiles == {NoFile, HandEdited1, NoUsersKey, NoProjectKey, EmptyObject}

\* project_name arguments of load_data in the persistence specification
PersistNames == {"demo", "other"}

\* The records the report specification starts from: the clock reads
\* ReportNow, and sessions is any list of at most MaxReportLen of these.
ReportNow == 31 * SecondsPerDay

DaysAgo(days) == ReportNow - days * SecondsPerDay

Ended30 == Session(Iso(DaysAgo(30) - 90), Iso(DaysAgo(30)), 150)
Ended8  == Session(Iso(DaysAgo(8) - 60), Iso(DaysAgo(8)), 100)
Ended1  == Session(Iso(DaysAgo(1) - 100), Iso(DaysAgo(1)), 167)
\* duration_minutes edited: 9.99 where end - start is one minute
Edited  == Session(Iso(ReportNow - 120), Iso(ReportNow - 60), 999)
\* no "end" key / "end": null / "end" unparseable / "end" unparseable and old
NoEnd   == Session(Iso(ReportNow - 60), Absent, 50)
NullEnd == Session(Iso(ReportNow - 30), NoneVal, 25)
BadEnd  == Session(Iso(ReportNow - 90), Bad, 75)
BadBoth == Session(Bad, Empty, 10)

ReportSessions ==
    {Ended30, Ended8, Ended1, Edited, NoEnd, NullEnd, BadEnd, BadBoth}

SeqsUpTo(S, n) == UNION {[1..k -> S] : k \in 0..n}

----------------------------------------------------------------------------
(* Path helpers.  A str is a sequence of one-character strings. *)

UpperCase ==
    <<"A", "B", "C", "D", "E", "F", "G", "H", "I", "J", "K", "L", "M",
      "N", "O", "P", "Q", "R", "S", "T", "U", "V", "W", "X", "Y", "Z">>

LowerCase ==
    <<"a", "b", "c", "d", "e", "f", "g", "h", "i", "j", "k", "l", "m",
      "n", "o", "p", "q", "r", "s", "t", "u", "v", "w", "x", "y", "z">>

\* the characters str.strip() removes (of ASCII)
Whitespace == {" ", "\t", "\n", "\r", "\f"}

RECURSIVE lstrip(_)
lstrip(str) ==
    IF str = <<>> THEN str
    ELSE IF Head(str) \in Whitespace THEN lstrip(Tail(str))
    ELSE str

RECURSIVE rstrip(_)
rstrip(str) ==
    IF str = <<>> THEN str
    ELSE IF str[Len(str)] \in Whitespace THEN rstrip(SubSeq(str, 1, Len(str) - 1))
    ELSE str

\* mutant: only the leading whitespace removed
strip_left_only(str) == lstrip(str)

\* str.strip()
strip(str) == rstrip(lstrip(str))

\* str.lower(), on ASCII
lower(str) ==
    [i \in 1..Len(str) |->
        IF \E k \in 1..26 : UpperCase[k] = str[i]
        THEN LowerCase[CHOOSE k \in 1..26 : UpperCase[k] = str[i]]
        ELSE str[i]]

\* str.replace(old, new) for one-character old and new
replace(str, old, new) ==
    [i \in 1..Len(str) |-> IF str[i] = old THEN new ELSE str[i]]

allowed_characters ==
    LowerCase \o <<"0", "1", "2", "3", "4", "5", "6", "7", "8", "9", "_", "-">>

\* "".join(char for char in formatted_name if char in allowed_characters)
RECURSIVE Joined(_)
Joined(formatted_name) ==
    IF formatted_name = <<>> THEN <<>>
    ELSE IF \E k \in 1..Len(allowed_characters) :
                allowed_characters[k] = Head(formatted_name)
    THEN <<Head(formatted_name)>> \o Joined(Tail(formatted_name))
    ELSE Joined(Tail(formatted_name))

silly_goose == <<"s", "i", "l", "l", "y", "_", "g", "o", "o", "s", "e">>

\* mutant: slugify without the placeholder
slugify_no_placeholder(project_name) ==
    Joined(replace(lower(strip(project_name)), " ", "_"))

slugify(project_name) ==
    LET formatted_name == replace(lower(strip(project_name)), " ", "_")
        safe_name      == Joined(formatted_name)
    IN  IF safe_name = <<>> THEN silly_goose ELSE safe_name

----------------------------------------------------------------------------
(* Output of an operation: what it printed, or the exception it raised *)

\* since: the start shown by clock_in / show_status; at, days: the clock value
\* and window time_report used; filtered: the sessions time_report selected;
\* count, total_minutes, listed: the figures and the session lines printed;
\* lines: the per-user lines of list_all_users_summary; project_name: the
\* project_name argument of load_data; name, slug: the project name entered
\* for slugify and the result of slugify, as sequences of characters
NoOut ==
    [op |-> "none", user |-> "", status |-> "", since |-> NoneVal,
     project_name |-> "", name |-> <<>>, slug |-> <<>>,
     at |-> [sec |-> 0, us |-> 0], days |-> 0, filtered |-> <<>>,
     count |-> 0, total_minutes |-> 0, listed |-> <<>>, lines |-> {}]

Out(op, user, status) ==
    [NoOut EXCEPT !.op = op, !.user = user, !.status = status]

NoHist == [fresh |-> FALSE, accepted |-> 0, appended |-> 0, opened |-> NoneVal]

----------------------------------------------------------------------------
(* Save & Load *)

\* mutant: save_data that writes every user as clocked out
save_data_closed(data_dictionary) ==
    LogFile(data_dictionary.project,
            [u \in DOMAIN data_dictionary.users |->
                [data_dictionary.users[u] EXCEPT !.active_session = NoneVal]])

\* json.dump(data_dictionary, output_file): the file then holds an object
\* with the keys "project" and "users".  JSON keeps what this program stores
\* (strings, null, numbers, lists, dicts with string keys) as it is.
save_data(data_dictionary) ==
    LogFile(data_dictionary.project, data_dictionary.users)

\* mutant: load_data that sets "project" whether the file has it or not
load_data_renames(log_file, project_name) ==
    IF log_file.exists
    THEN [project |-> project_name,
          users   |-> IF log_file.has_users THEN log_file.users ELSE EmptyUsers]
    ELSE [project |-> project_name, users |-> EmptyUsers]

\* mutant: load_data that sets "users" to {} whether the file has it or not
load_data_resets_users(log_file, project_name) ==
    IF log_file.exists
    THEN [project |-> IF log_file.has_project THEN log_file.project
                                              ELSE project_name,
          users   |-> EmptyUsers]
    ELSE [project |-> project_name, users |-> EmptyUsers]

load_data(log_file, project_name) ==
    IF log_file.exists
    THEN [project |-> IF log_file.has_project THEN log_file.project
                                              ELSE project_name,
          users   |-> IF log_file.has_users THEN log_file.users ELSE EmptyUsers]
    ELSE [project |-> project_name, users |-> EmptyUsers]

\* mutant: ensure_user without the "username not in users" check
ensure_user_reset(project_data, username) ==
    [project_data EXCEPT !.users =
        [u \in DOMAIN project_data.users \cup {username} |->
            IF u = username THEN NewUser ELSE project_data.users[u]]]

ensure_user(project_data, username) ==
    IF username \in DOMAIN project_data.users
    THEN project_data
    ELSE [project_data EXCEPT !.users =
            [u \in DOMAIN project_data.users \cup {username} |->
                IF u = username THEN NewUser ELSE project_data.users[u]]]

----------------------------------------------------------------------------
(* Core operations on one user's record.  Each returns the record it leaves *)
(* behind (user_data is mutated in place, so an exception leaves what was   *)
(* written before it) and what it signalled.                                *)

\* mutant: clock_in without the "already clocked in" check
clock_in_overwrite(user_data, dt) ==
    [user_data |-> [user_data EXCEPT !.active_session = isoformat(dt)],
     status    |-> "ok"]

clock_in(user_data, dt) ==
    IF ~IsNone(Get(user_data.active_session))
    THEN [user_data |-> user_data, status |-> "already"]
    ELSE [user_data |-> [user_data EXCEPT !.active_session = isoformat(dt)],
          status    |-> "ok"]

\* the success path of clock_out with the new session placed by Place, the
\* start taken as `start` and active_session left as `after`
ClosedWith(user_data, start, dt, after, Place(_, _)) ==
    LET end == isoformat(dt)
        duration_minutes ==
            RoundMinutes(total_seconds(fromisoformat(end), fromisoformat(start)))
    IN  [user_data |->
            [sessions |-> Place(user_data.sessions,
                                Session(start, end, duration_minutes)),
             active_session |-> after],
         status |-> "ok"]

AtFront(sessions, session) == <<session>> \o sessions

\* mutant: clock_out without the "not clocked in" check, the start defaulting
\* to the current time
clock_out_unguarded(user_data, dt) ==
    LET start == Get(user_data.active_session)
    IN  IF IsNone(start)
        THEN ClosedWith(user_data, isoformat(dt), dt, NoneVal, Append)
        ELSE IF ~Parses(start)
        THEN [user_data |-> user_data, status |-> "ValueError"]
        ELSE ClosedWith(user_data, start, dt, NoneVal, Append)

\* mutant: clock_out that does not clear active_session
clock_out_keeps_active(user_data, dt) ==
    LET start == Get(user_data.active_session)
    IN  IF IsNone(start)
        THEN [user_data |-> user_data, status |-> "not_clocked_in"]
        ELSE IF ~Parses(start)
        THEN [user_data |-> user_data, status |-> "ValueError"]
        ELSE ClosedWith(user_data, start, dt, start, Append)

\* mutant: clock_out that inserts the new session at the front
clock_out_prepend(user_data, dt) ==
    LET start == Get(user_data.active_session)
    IN  IF IsNone(start)
        THEN [user_data |-> user_data, status |-> "not_clocked_in"]
        ELSE IF ~Parses(start)
        THEN [user_data |-> user_data, status |-> "ValueError"]
        ELSE ClosedWith(user_data, start, dt, NoneVal, AtFront)

\* mutant: clock_out that clears active_session before it parses the start
clock_out_clears_first(user_data, dt) ==
    LET start == Get(user_data.active_session)
    IN  IF IsNone(start)
        THEN [user_data |-> user_data, status |-> "not_clocked_in"]
        ELSE IF ~Parses(start)
        THEN [user_data |-> [user_data EXCEPT !.active_session = NoneVal],
              status    |-> "ValueError"]
        ELSE ClosedWith(user_data, start, dt, NoneVal, Append)

clock_out(user_data, dt) ==
    LET start == Get(user_data.active_session)
        end   == isoformat(dt)
    IN  IF IsNone(start)
        THEN [user_data |-> user_data, status |-> "not_clocked_in"]
        ELSE IF ~Parses(start)
        THEN [user_data |-> user_data, status |-> "ValueError"]
        ELSE LET start_dt == fromisoformat(start)
                 end_dt   == fromisoformat(end)
                 duration_minutes ==
                     RoundMinutes(total_seconds(end_dt, start_dt))
             IN  [user_data |->
                    [sessions |-> Append(user_data.sessions,
                                         Session(start, end, duration_minutes)),
                     active_session |-> NoneVal],
                  status |-> "ok"]

\* mutant: the total recomputed from start and end
RECURSIVE SumRecomputed(_)
SumRecomputed(sessions) ==
    IF sessions = <<>> THEN 0
    ELSE RoundMinutes(Head(sessions).end.sec - Head(sessions).start.sec)
            + SumRecomputed(Tail(sessions))

\* sum(s["duration_minutes"] for s in sessions)
RECURSIVE SumMinutes(_)
SumMinutes(sessions) ==
    IF sessions = <<>> THEN 0
    ELSE Head(sessions).duration_minutes + SumMinutes(Tail(sessions))

\* the loop `for s in ...: print(f"{s['start']} -> {s['end']} ...")`: the
\* sessions printed before the first one that lacks a key (KeyError)
RECURSIVE Printed(_)
Printed(sessions) ==
    IF sessions = <<>> THEN <<>>
    ELSE IF Head(sessions).start.kind = "absent" \/ Head(sessions).end.kind = "absent"
    THEN <<>>
    ELSE <<Head(sessions)>> \o Printed(Tail(sessions))

PrintStatus(sessions) ==
    IF Len(Printed(sessions)) = Len(sessions) THEN "ok" ELSE "KeyError"

\* sessions[-5:]
Last5(sessions) ==
    IF Len(sessions) <= 5 THEN sessions
    ELSE SubSeq(sessions, Len(sessions) - 4, Len(sessions))

show_status(user_data, username) ==
    LET start == Get(user_data.active_session)
    IN  IF Truthy(start)
        THEN [Out("show_status", username, "clocked_in") EXCEPT !.since = start]
        ELSE Out("show_status", username, "not_clocked_in")

show_summary(user_data, username) ==
    LET sessions == user_data.sessions
    IN  IF sessions = <<>>
        THEN Out("show_summary", username, "no_sessions")
        ELSE [Out("show_summary", username, PrintStatus(Last5(sessions)))
                EXCEPT !.count = Len(sessions),
                       !.total_minutes = SumMinutes(sessions),
                       !.listed = Printed(Last5(sessions))]

list_all_users_summary(project_data) ==
    IF DOMAIN project_data.users = {}
    THEN Out("list_all_users_summary", "", "no_users")
    ELSE [Out("list_all_users_summary", "", "ok") EXCEPT !.lines =
            {[user |-> u,
              total_minutes |-> SumMinutes(project_data.users[u].sessions),
              count |-> Len(project_data.users[u].sessions)]
             : u \in DOMAIN project_data.users}]

\* mutant: the filter loop with `break` where the code has `continue`
RECURSIVE FilteredUntilBad(_, _)
FilteredUntilBad(sessions, cutoff) ==
    IF sessions = <<>> THEN <<>>
    ELSE LET session == Head(sessions)
             end_str == Or(Get(session.end), Get(session.start))
         IN  IF ~Parses(end_str) THEN <<>>
             ELSE IF DtGE(fromisoformat(end_str), cutoff)
             THEN <<session>> \o FilteredUntilBad(Tail(sessions), cutoff)
             ELSE FilteredUntilBad(Tail(sessions), cutoff)

\* the filter loop of time_report
RECURSIVE Filtered(_, _)
Filtered(sessions, cutoff) ==
    IF sessions = <<>> THEN <<>>
    ELSE LET session == Head(sessions)
             end_str == Or(Get(session.end), Get(session.start))
             rest    == Filtered(Tail(sessions), cutoff)
         IN  IF ~Parses(end_str) THEN rest
             ELSE IF DtGE(fromisoformat(end_str), cutoff)
             THEN <<session>> \o rest
             ELSE rest

time_report(user_data, username, days, dt) ==
    LET sessions == user_data.sessions
        cutoff   == MinusDays(dt, days)
        filtered == Filtered(sessions, cutoff)
    IN  IF sessions = <<>>
        THEN Out("time_report", username, "no_sessions")
        ELSE IF filtered = <<>>
        THEN [Out("time_report", username, "none_in_window")
                EXCEPT !.at = dt, !.days = days]
        ELSE [Out("time_report", username, PrintStatus(filtered))
                EXCEPT !.at = dt, !.days = days,
                       !.filtered = filtered,
                       !.count = Len(filtered),
                       !.total_minutes = SumMinutes(filtered),
                       !.listed = Printed(filtered)]

----------------------------------------------------------------------------
(* The state machine *)

Init ==
    /\ file \in InitFiles
    /\ \E project_name \in ProjectNames : data = load_data(file, project_name)
    /\ now = 0
    /\ out = NoOut
    /\ hist = [u \in Usernames |-> NoHist]

\* the wall clock moves on
Tick ==
    /\ \E t \in ClockSecs : t > now /\ now' = t
    /\ out' = Out("tick", "", "")
    /\ UNCHANGED <<data, file, hist>>

\* the wall clock is set back (datetime.now() is local time, not monotonic)
ClockSetBack ==
    /\ \E t \in ClockSecs : t < now /\ now' = t
    /\ out' = Out("clock_set_back", "", "")
    /\ UNCHANGED <<data, file, hist>>

LoadData(project_name) ==
    /\ data' = load_data(file, project_name)
    /\ out' = [Out("load_data", "", "ok") EXCEPT !.project_name = project_name]
    /\ hist' = [u \in Usernames |-> NoHist]
    /\ UNCHANGED <<file, now>>

EnsureUser(username) ==
    /\ data' = ensure_user(data, username)
    /\ out' = Out("ensure_user", username,
                  IF username \in DOMAIN data.users THEN "exists" ELSE "created")
    /\ hist' = IF username \in DOMAIN data.users THEN hist
               ELSE [hist EXCEPT ![username] = [NoHist EXCEPT !.fresh = TRUE]]
    /\ UNCHANGED <<file, now>>

\* history of a record: bumps the counters of a fresh record only
Accepted(h, written) ==
    [h EXCEPT !.opened = written,
              !.accepted = IF h.fresh THEN @ + 1 ELSE @]

Appended(h) ==
    [h EXCEPT !.opened = NoneVal,
              !.appended = IF h.fresh THEN @ + 1 ELSE @]

\* mutant: every user's record is one shared dict, so clock_in on one user
\* writes all of them
ClockInShared(username) ==
    /\ username \in DOMAIN data.users
    /\ \E us \in SubSeconds :
         LET r == clock_in(data.users[username], [sec |-> now, us |-> us])
         IN  /\ data' = [data EXCEPT !.users =
                            [u \in DOMAIN data.users |-> r.user_data]]
             /\ out' = [Out("clock_in", username, r.status)
                          EXCEPT !.since = Get(r.user_data.active_session)]
             /\ hist' = IF r.status = "ok"
                        THEN [hist EXCEPT ![username] =
                                Accepted(@, r.user_data.active_session)]
                        ELSE hist
    /\ UNCHANGED <<file, now>>

ClockIn(username) ==
    /\ username \in DOMAIN data.users
    /\ \E us \in SubSeconds :
         LET r == clock_in(data.users[username], [sec |-> now, us |-> us])
         IN  /\ data' = [data EXCEPT !.users[username] = r.user_data]
             /\ out' = [Out("clock_in", username, r.status)
                          EXCEPT !.since = Get(r.user_data.active_session)]
             /\ hist' = IF r.status = "ok"
                        THEN [hist EXCEPT ![username] =
                                Accepted(@, r.user_data.active_session)]
                        ELSE hist
    /\ UNCHANGED <<file, now>>

\* number of sessions in the log, over all users
RECURSIVE CountSessions(_, _)
CountSessions(users, names) ==
    IF names = {} THEN 0
    ELSE LET u == CHOOSE x \in names : TRUE
         IN  Len(users[u].sessions) + CountSessions(users, names \ {u})

TotalSessions(project_data) ==
    CountSessions(project_data.users, DOMAIN project_data.users)

ClockOut(username) ==
    /\ username \in DOMAIN data.users
    /\ \E us \in SubSeconds :
         LET r == clock_out(data.users[username], [sec |-> now, us |-> us])
         IN  /\ r.status = "ok" => TotalSessions(data) < MaxSessions
             /\ data' = [data EXCEPT !.users[username] = r.user_data]
             /\ out' = Out("clock_out", username, r.status)
             /\ hist' = IF r.status = "ok"
                        THEN [hist EXCEPT ![username] = Appended(@)]
                        ELSE hist
    /\ UNCHANGED <<file, now>>

ShowStatus(username) ==
    /\ username \in DOMAIN data.users
    /\ out' = show_status(data.users[username], username)
    /\ UNCHANGED <<data, file, now, hist>>

ShowSummary(username) ==
    /\ username \in DOMAIN data.users
    /\ out' = show_summary(data.users[username], username)
    /\ UNCHANGED <<data, file, now, hist>>

ListAllUsersSummary ==
    /\ out' = list_all_users_summary(data)
    /\ UNCHANGED <<data, file, now, hist>>

TimeReport(username, days) ==
    /\ username \in DOMAIN data.users
    /\ \E us \in SubSeconds :
         out' = time_report(data.users[username], username, days,
                            [sec |-> now, us |-> us])
    /\ UNCHANGED <<data, file, now, hist>>

Next ==
    \/ Tick
    \/ ClockSetBack
    \/ \E project_name \in ProjectNames : LoadData(project_name)
    \/ \E username \in Usernames : EnsureUser(username)
    \/ \E username \in Usernames : ClockIn(username)
    \/ \E username \in Usernames : ClockOut(username)
    \/ \E username \in Usernames : ShowStatus(username)
    \/ \E username \in Usernames : ShowSummary(username)
    \/ ListAllUsersSummary
    \/ \E username \in Usernames, days \in ReportDays : TimeReport(username, days)

Spec == Init /\ [][Next]_vars

SaveData ==
    /\ file' = save_data(data)
    /\ out' = Out("save_data", "", "ok")
    /\ UNCHANGED <<data, now, hist>>

\* Persistence: the log is saved to and loaded from its file between
\* clock_ins and clock_outs, starting from no file or an older one.
InitPersist ==
    /\ file \in PersistFiles
    /\ \E project_name \in PersistNames : data = load_data(file, project_name)
    /\ now = 0
    /\ out = NoOut
    /\ hist = [u \in Usernames |-> NoHist]

NextPersist ==
    \/ Tick
    \/ SaveData
    \/ \E project_name \in PersistNames : LoadData(project_name)
    \/ \E username \in Usernames : EnsureUser(username)
    \/ \E username \in Usernames : ClockIn(username)
    \/ \E username \in Usernames : ClockOut(username)

SpecPersist == InitPersist /\ [][NextPersist]_vars

\* slugify applied to the project name that was entered
Slugify ==
    /\ out' = [Out("slugify", "", "ok") EXCEPT !.name = out.name,
                                                 !.slug = slugify(out.name)]
    /\ UNCHANGED <<data, file, now, hist>>

\* slugify as a function of the project name: every name of at most
\* MaxNameLen characters of SlugAlphabet has been entered
InitSlug ==
    /\ file = NoFile
    /\ data = [project |-> "demo", users |-> EmptyUsers]
    /\ now = 0
    /\ \E project_name \in SeqsUpTo(SlugAlphabet, MaxNameLen) :
         out = [NoOut EXCEPT !.name = project_name]
    /\ hist = [u \in Usernames |-> NoHist]

NextSlug == Slugify

SpecSlug == InitSlug /\ [][NextSlug]_vars

\* The displays as functions of the record: every sessions list over
\* ReportSessions, and the displays applied to it.
InitReport ==
    /\ file = NoFile
    /\ \E sessions \in SeqsUpTo(ReportSessions, MaxReportLen) :
         data = [project |-> "demo",
                 users   |-> [u \in {"ana"} |->
                                [sessions |-> sessions,
                                 active_session |-> NoneVal]]]
    /\ now = ReportNow
    /\ out = NoOut
    /\ hist = [u \in Usernames |-> NoHist]

NextReport ==
    \/ \E username \in Usernames : ShowSummary(username)
    \/ ListAllUsersSummary
    \/ \E username \in Usernames, days \in ReportDays : TimeReport(username, days)

SpecReport == InitReport /\ [][NextReport]_vars

----------------------------------------------------------------------------
(* Helpers of the properties *)

Users == DOMAIN data.users

ActiveOf(project_data, u) == Get(project_data.users[u].active_session)

SessionsOf(project_data, u) == project_data.users[u].sessions

IsPrefix(s, t) == Len(s) <= Len(t) /\ SubSeq(t, 1, Len(s)) = s

Last(s) == s[Len(s)]

\* d hundredths of a minute is `seconds`/60 minutes rounded to 2 decimals
IsRounded(d, seconds) == 3 * d - 5 * seconds \in -1..1

----------------------------------------------------------------------------
(* C1..C6: the session lifecycle, under Spec *)

\* C1: an accepted clock_in writes the current clock value (to the second) as
\* active_session, and the clock_out that follows it (whatever rejected
\* clock_ins, displays, reports and clock changes lie in between) appends
\* exactly one session: start = the timestamp that clock_in wrote, end = the
\* clock value at clock_out, duration_minutes = (end - start)/60 rounded to 2
\* decimals; active_session is null afterwards.
C1_ClockInThenClockOut ==
    [][\A u \in Users :
        /\ (out'.op = "clock_in" /\ out'.user = u /\ IsNone(ActiveOf(data, u)))
            => /\ out'.status = "ok"
               /\ ActiveOf(data', u) = Iso(now)
               /\ hist'[u].opened = Iso(now)
               /\ SessionsOf(data', u) = SessionsOf(data, u)
        /\ (out'.op = "clock_out" /\ out'.user = u /\ ~IsNone(hist[u].opened))
            => /\ out'.status = "ok"
               /\ Len(SessionsOf(data', u)) = Len(SessionsOf(data, u)) + 1
               /\ IsPrefix(SessionsOf(data, u), SessionsOf(data', u))
               /\ Last(SessionsOf(data', u)).start = hist[u].opened
               /\ Last(SessionsOf(data', u)).end = Iso(now)
               /\ IsRounded(Last(SessionsOf(data', u)).duration_minutes,
                            now - hist[u].opened.sec)
               /\ IsNone(ActiveOf(data', u))
    ]_vars

\* a clock_in at second 0 and a clock_out at second 100 have produced a
\* session of 1.67 minutes
C1_Witness ==
    /\ out.op = "clock_out" /\ out.status = "ok"
    /\ out.user \in Users
    /\ SessionsOf(data, out.user) # <<>>
    /\ Last(SessionsOf(data, out.user)) = Session(Iso(0), Iso(100), 167)
    /\ hist[out.user].appended > 0
    /\ IsNone(ActiveOf(data, out.user))

\* C2: while active_session is set, clock_in is rejected without an exception
\* and leaves the log as it is, and so does every other step but a clock_out of
\* that user (or a reload of the log): however often clock_in is repeated and
\* however the clock moves, active_session and sessions keep their values.
C2_DoubleClockInIsNoOp ==
    [][\A u \in Users :
        ~IsNone(ActiveOf(data, u)) =>
            /\ (out'.op = "clock_in" /\ out'.user = u)
                => (out'.status = "already" /\ data' = data)
            /\ ~(out'.op = "load_data" \/ (out'.op = "clock_out" /\ out'.user = u))
                => (u \in DOMAIN data'.users /\ data'.users[u] = data.users[u])
    ]_vars

\* a clock_in was rejected after the clock had moved on from the start of the
\* open session, which is still the one shown
C2_Witness ==
    /\ out.op = "clock_in" /\ out.status = "already"
    /\ out.user \in Users
    /\ ActiveOf(data, out.user) = Iso(0)
    /\ out.since = Iso(0)
    /\ now = 100

\* C3: clock_out on a record without an active session is rejected without an
\* exception and leaves the log as it is (same sessions in the same order,
\* active_session still null).
C3_ClockOutWhenNotIn ==
    [][\A u \in Users :
        (out'.op = "clock_out" /\ out'.user = u /\ IsNone(ActiveOf(data, u)))
            => (out'.status = "not_clocked_in" /\ data' = data)
    ]_vars

\* a clock_out was rejected on a record that holds a session
C3_Witness ==
    /\ out.op = "clock_out" /\ out.status = "not_clocked_in"
    /\ out.user \in Users
    /\ SessionsOf(data, out.user) # <<>>
    /\ IsNone(ActiveOf(data, out.user))

\* C4: for a record created by ensure_user and changed by clock_in and
\* clock_out since, accepted clock_ins minus appended sessions is 0 or 1, it is
\* 1 exactly when active_session is non-null, every appended session is in
\* sessions, and no clock_in is accepted while active_session is non-null.
C4_OpenCount(u) == hist[u].accepted - hist[u].appended

C4_AtMostOneOpen ==
    /\ [](\A u \in Users : hist[u].fresh =>
            /\ C4_OpenCount(u) \in {0, 1}
            /\ C4_OpenCount(u) = 1 <=> ~IsNone(ActiveOf(data, u))
            /\ hist[u].appended = Len(SessionsOf(data, u)))
    /\ [][\A u \in Users :
            (hist[u].fresh /\ ~IsNone(ActiveOf(data, u)) /\ out'.op # "load_data")
                => hist'[u].accepted = hist[u].accepted
       ]_vars

\* a fresh record on its second open session
C4_Witness ==
    \E u \in Users :
        /\ hist[u].fresh
        /\ hist[u].accepted = 2 /\ hist[u].appended = 1
        /\ ~IsNone(ActiveOf(data, u))

\* C5: over clock_in, clock_out, ensure_user, show_status, show_summary,
\* list_all_users_summary, time_report and clock changes, a user's sessions
\* before a step are a prefix of the sessions after it, and they change only
\* by a successful clock_out of that user, which adds exactly one.
C5_SessionsAppendOnly ==
    [][\A u \in Users :
        out'.op # "load_data" =>
            /\ u \in DOMAIN data'.users
            /\ IsPrefix(SessionsOf(data, u), SessionsOf(data', u))
            /\ SessionsOf(data', u) # SessionsOf(data, u)
                => /\ out'.op = "clock_out" /\ out'.user = u /\ out'.status = "ok"
                   /\ Len(SessionsOf(data', u)) = Len(SessionsOf(data, u)) + 1
    ]_vars

\* a second, different session has been appended behind the first
C5_Witness ==
    /\ out.op = "clock_out" /\ out.status = "ok"
    /\ out.user \in Users
    /\ Len(SessionsOf(data, out.user)) = 2
    /\ SessionsOf(data, out.user)[1] # SessionsOf(data, out.user)[2]

\* C6: every session appended by clock_out has a non-negative
\* duration_minutes and an end that is not earlier than its start.
C6_NonNegativeDuration ==
    (out.op = "clock_out" /\ out.status = "ok" /\ out.user \in Users) =>
        /\ Last(SessionsOf(data, out.user)).duration_minutes >= 0
        /\ Last(SessionsOf(data, out.user)).end.sec
             >= Last(SessionsOf(data, out.user)).start.sec

----------------------------------------------------------------------------
(* C7..C10: the displays, under SpecReport *)

Range(s) == {s[i] : i \in 1..Len(s)}

\* the user's sessions the last display was about
Shown == SessionsOf(data, out.user)

Reported == out.op = "time_report" /\ out.user \in Users /\ Shown # <<>>

\* the cutoff of the last report: the clock value it read minus its window
CutoffSec == out.at.sec - out.days * SecondsPerDay

\* second `sec` (a timestamp has no microseconds) is at or after the cutoff
AtOrAfterCutoff(sec) == sec > CutoffSec \/ (sec = CutoffSec /\ out.at.us = 0)

HasEnd(session) == session.end.kind = "iso"

EndsInWindow(session) == AtOrAfterCutoff(session.end.sec)

\* the timestamp the report goes by: end, or start where end is missing
Stamp(session) ==
    IF session.end.kind \in {"iso", "bad"} THEN session.end ELSE Get(session.start)

Unparseable(session) == Stamp(session).kind # "iso"

Qualifies(session) == ~Unparseable(session) /\ AtOrAfterCutoff(Stamp(session).sec)

\* left-to-right sum of the stored duration_minutes
SumOver(sessions) ==
    LET S[i \in 0..Len(sessions)] ==
            IF i = 0 THEN 0 ELSE S[i - 1] + sessions[i].duration_minutes
    IN  S[Len(sessions)]

\* C7: time_report reads the clock at call time and, of the sessions that
\* have an end timestamp, selects exactly those whose end is at or after the
\* cutoff (now minus days), in storage order; when every session has one, the
\* report completes and lists exactly the selected sessions.
C7_ReportWindow ==
    Reported =>
        /\ out.at.sec = now
        /\ out.days \in ReportDays
        /\ SelectSeq(out.filtered, HasEnd)
             = SelectSeq(SelectSeq(Shown, HasEnd), EndsInWindow)
        /\ (\A i \in 1..Len(Shown) : HasEnd(Shown[i]) /\ Shown[i].start.kind # "absent")
            => /\ out.status \in {"ok", "none_in_window"}
               /\ out.listed = SelectSeq(Shown, EndsInWindow)

\* of sessions that ended 30, 8 and 1 day ago, a 7-day report lists the last
C7_Witness ==
    /\ Reported
    /\ Shown = <<Ended30, Ended8, Ended1>>
    /\ out.days = 7
    /\ out.status = "ok"
    /\ out.listed = <<Ended1>>

\* a session that ended exactly at the cutoff is listed
C7_WitnessBoundary ==
    /\ Reported
    /\ out.days = 1 /\ out.at.us = 0
    /\ Shown = <<Ended8, Ended1>>
    /\ out.listed = <<Ended1>>

\* C8: a session without an end timestamp whose start is at or after the
\* cutoff is included in the report, and the report completes without an
\* error.
C8_NoEndQualifies ==
    Reported =>
        \A i \in 1..Len(Shown) :
            (/\ ~Truthy(Get(Shown[i].end))
             /\ Shown[i].start.kind = "iso"
             /\ AtOrAfterCutoff(Shown[i].start.sec))
                => /\ out.status = "ok"
                   /\ Shown[i] \in Range(out.listed)

\* C9: a session whose timestamp cannot be parsed is skipped: the report
\* selects exactly the sessions with a parseable timestamp at or after the
\* cutoff, in storage order, as if the unparseable ones were not in the list,
\* and it raises no error on their account (the only error is the KeyError of
\* a selected session that lacks a key).
C9_UnparseableSkipped ==
    Reported =>
        /\ out.filtered = SelectSeq(Shown, Qualifies)
        /\ \A i \in 1..Len(out.filtered) : ~Unparseable(out.filtered[i])
        /\ out.status \in {"ok", "none_in_window", "KeyError"}
        /\ out.status = "KeyError" =>
             \E i \in 1..Len(out.filtered) :
                out.filtered[i].end.kind = "absent"
                    \/ out.filtered[i].start.kind = "absent"
        /\ out.status = "ok" => out.listed = out.filtered

\* a report over a list that starts with an unparseable session completed
\* and lists the session behind it
C9_Witness ==
    /\ Reported
    /\ Shown = <<BadEnd, Ended1, BadBoth>>
    /\ out.days = 7
    /\ out.status = "ok"
    /\ out.listed = <<Ended1>>

\* C10: show_summary shows the sum of the stored duration_minutes of all
\* sessions and their number; time_report shows the sum of the stored
\* duration_minutes of the sessions it selected and their number.
C10_TotalsAreStoredSums ==
    /\ (out.op = "show_summary" /\ out.user \in Users /\ Shown # <<>>)
        => /\ out.total_minutes = SumOver(Shown)
           /\ out.count = Len(Shown)
    /\ (Reported /\ out.status # "none_in_window")
        => /\ out.filtered = SelectSeq(Shown, Qualifies)
           /\ out.total_minutes = SumOver(SelectSeq(Shown, Qualifies))
           /\ out.count = Len(SelectSeq(Shown, Qualifies))

\* a report whose total differs from what start and end would give: the
\* edited session counts with its stored 9.99 minutes
C10_Witness ==
    /\ Reported
    /\ Shown = <<Ended8, Edited, Ended1>>
    /\ out.days = 7
    /\ out.count = 2
    /\ out.total_minutes = 999 + 167

----------------------------------------------------------------------------
(* C13, C16, C17, C19, C20: the log and the lifecycle, under Spec *)

\* C13: ensure_user inserts a record with empty sessions and null
\* active_session for a new username, leaves the record of a username that is
\* present as it is, leaves every other user's record and the project name as
\* they are, and applied again to its result changes nothing.
C13_EnsureUserIdempotent ==
    [][out'.op = "ensure_user" =>
        /\ DOMAIN data'.users = Users \cup {out'.user}
        /\ out'.user \notin Users
            => data'.users[out'.user]
                 = [sessions |-> <<>>, active_session |-> NoneVal]
        /\ \A v \in Users : data'.users[v] = data.users[v]
        /\ data'.project = data.project
        /\ ensure_user(data', out'.user) = data'
    ]_vars

\* ensure_user was called for a user who has a session, next to another user
C13_Witness ==
    /\ out.op = "ensure_user" /\ out.status = "exists"
    /\ out.user \in Users
    /\ SessionsOf(data, out.user) # <<>>
    /\ Users # {out.user}

\* C16: in a record created by ensure_user and changed by clock_in and
\* clock_out since, each session starts no earlier than the session stored
\* before it ended.
C16_Chronological ==
    \A u \in Users : hist[u].fresh =>
        \A i \in 1..(Len(SessionsOf(data, u)) - 1) :
            SessionsOf(data, u)[i + 1].start.sec >= SessionsOf(data, u)[i].end.sec

\* C17: show_status reports "Clocked in", with active_session as the start,
\* exactly when clock_in on the same record is rejected as already clocked in.
C17_StatusAgreesWithClockIn ==
    (out.op = "show_status" /\ out.user \in Users) =>
        LET rejected ==
                clock_in(data.users[out.user], [sec |-> now, us |-> 0]).status
                    = "already"
        IN  /\ out.status = "clocked_in" <=> rejected
            /\ out.status = "not_clocked_in" <=> ~rejected
            /\ out.status = "clocked_in" => out.since = ActiveOf(data, out.user)

\* C19: a clock_in or clock_out of one user leaves every other user's record,
\* the set of users and the project name as they are.
C19_OnlyOwnRecord ==
    [][out'.op \in {"clock_in", "clock_out"} =>
        /\ DOMAIN data'.users = Users
        /\ \A v \in Users \ {out'.user} : data'.users[v] = data.users[v]
        /\ data'.project = data.project
    ]_vars

\* a user clocked in while the other user had an open session and no session
C19_Witness ==
    /\ out.op = "clock_in" /\ out.status = "ok"
    /\ \E v \in Users \ {out.user} :
        /\ ActiveOf(data, v) = Iso(0)
        /\ ActiveOf(data, out.user) = Iso(100)

\* C20: clock_out on a record whose active_session is set but is no
\* timestamp raises an error and leaves the record (and the log) as it is.
C20_ClockOutAllOrNothing ==
    [][\A u \in Users :
        (/\ out'.op = "clock_out" /\ out'.user = u
         /\ ~IsNone(ActiveOf(data, u)) /\ ActiveOf(data, u).kind # "iso")
            => (out'.status = "ValueError" /\ data' = data)
    ]_vars

\* clock_out has failed on an active_session that is no timestamp
C20_Witness ==
    /\ out.op = "clock_out" /\ out.status = "ValueError"
    /\ out.user \in Users
    /\ ActiveOf(data, out.user) = Bad

----------------------------------------------------------------------------
(* C11, C12, C18: the log file, under SpecPersist *)

\* C11: load_data on the file that save_data has just written returns the
\* log that was saved, whatever project_name it is given.
C11_SaveLoadRoundTrip ==
    [][(out.op = "save_data" /\ out'.op = "load_data") => data' = data]_vars

\* a log with a session and an open session came back from its file, loaded
\* under another project name
C11_Witness ==
    /\ out.op = "load_data"
    /\ out.project_name # data.project
    /\ file = LogFile(data.project, data.users)
    /\ \E u \in Users :
        /\ SessionsOf(data, u) = <<Session(Iso(0), Iso(100), 167)>>
        /\ ActiveOf(data, u) = Iso(100)

\* C12: without a file load_data returns {project: project_name, users: {}};
\* with a file it returns the file's project and users, project_name standing
\* in only for a missing "project" key and {} only for a missing "users" key.
C12_LoadBackfillsOnlyMissing ==
    [][out'.op = "load_data" =>
        /\ ~file.exists
            => data' = [project |-> out'.project_name, users |-> EmptyUsers]
        /\ (file.exists /\ file.has_project) => data'.project = file.project
        /\ (file.exists /\ ~file.has_project) => data'.project = out'.project_name
        /\ (file.exists /\ file.has_users) => data'.users = file.users
        /\ (file.exists /\ ~file.has_users) => data'.users = EmptyUsers
    ]_vars

\* a file without the "users" key was loaded under another project name: the
\* project of the file is kept and users is {}
C12_Witness ==
    /\ out.op = "load_data"
    /\ file = NoUsersKey
    /\ out.project_name = "other"
    /\ data = [project |-> "demo", users |-> EmptyUsers]

\* a file without the "project" key was loaded: its users are kept
C12_WitnessNoProject ==
    /\ out.op = "load_data"
    /\ file = NoProjectKey
    /\ data = [project |-> "other", users |-> NoProjectKey.users]

\* C18: save_data writes every user's record, the open session included,
\* load_data returns the records of the file, and clock_out on a record with
\* an open session appends one session that starts at active_session and
\* clears it: an open session that was saved and loaded is closed like one
\* that never left memory.
C18_OpenSessionSurvives ==
    [][/\ out'.op = "save_data"
            => /\ data' = data
               /\ file'.exists /\ file'.has_users
               /\ DOMAIN file'.users = Users
               /\ \A u \in Users : file'.users[u] = data.users[u]
       /\ (out'.op = "load_data" /\ file.exists /\ file.has_users)
            => /\ DOMAIN data'.users = DOMAIN file.users
               /\ \A u \in DOMAIN file.users : data'.users[u] = file.users[u]
       /\ \A u \in Users :
            (out'.op = "clock_out" /\ out'.user = u /\ ActiveOf(data, u).kind = "iso")
                => /\ out'.status = "ok"
                   /\ SessionsOf(data', u)
                        = Append(SessionsOf(data, u),
                                 Session(ActiveOf(data, u), Iso(now),
                                         Last(SessionsOf(data', u)).duration_minutes))
                   /\ IsNone(ActiveOf(data', u))
    ]_vars

\* bob's record came from the file (it is not the one ensure_user created),
\* the file holds his open session of second 0, and clock_out at second 100
\* has closed it
C18_Witness ==
    /\ out.op = "clock_out" /\ out.status = "ok" /\ out.user = "bob"
    /\ "bob" \in Users
    /\ ~hist["bob"].fresh
    /\ file.exists /\ file.has_users /\ "bob" \in DOMAIN file.users
    /\ file.users["bob"] = [sessions |-> <<>>, active_session |-> Iso(0)]
    /\ data.users["bob"] =
         [sessions |-> <<Session(Iso(0), Iso(100), 167)>>,
          active_session |-> NoneVal]

----------------------------------------------------------------------------
(* C14, C15: slugify, under SpecSlug *)

SafeCharacters ==
    Range(LowerCase)
        \cup {"0", "1", "2", "3", "4", "5", "6", "7", "8", "9"} \cup {"_", "-"}

\* C14: the slug is non-empty and made of a-z, 0-9, underscore and hyphen
\* only, also for a name that is empty or has no allowed character.
C14_SlugIsSafe ==
    out.op = "slugify" =>
        /\ out.slug # <<>>
        /\ \A i \in 1..Len(out.slug) : out.slug[i] \in SafeCharacters

\* a name made of a symbol between blanks got the placeholder
C14_Witness ==
    /\ out.op = "slugify"
    /\ out.name = <<" ", "!", "\t">>
    /\ out.slug = <<"s", "i", "l", "l", "y", "_", "g", "o", "o", "s", "e">>

\* the name lower-cased, each space replaced by an underscore, and then only
\* the safe characters kept; the placeholder when nothing is left
LowerOf(c) ==
    IF c \in Range(UpperCase)
    THEN LowerCase[CHOOSE k \in 1..26 : UpperCase[k] = c]
    ELSE c

IsSafe(c) == c \in SafeCharacters

Described(name) ==
    LET lowered  == [i \in 1..Len(name) |-> LowerOf(name[i])]
        replaced == [i \in 1..Len(name) |->
                        IF lowered[i] = " " THEN "_" ELSE lowered[i]]
        kept     == SelectSeq(replaced, IsSafe)
    IN  IF Len(kept) = 0
        THEN <<"s", "i", "l", "l", "y", "_", "g", "o", "o", "s", "e">>
        ELSE kept

\* the name without its leading and trailing whitespace: what lies between
\* its first and its last character that is no whitespace
Trimmed(name) ==
    LET solid == {i \in 1..Len(name) : name[i] \notin Whitespace}
    IN  IF solid = {} THEN <<>>
        ELSE SubSeq(name, CHOOSE i \in solid : \A j \in solid : i <= j,
                          CHOOSE i \in solid : \A j \in solid : i >= j)

\* C15 as claimed: the slug of every name, leading and trailing spaces
\* included, is the name lower-cased, spaces replaced by underscores, safe
\* characters kept, or the placeholder.
C15_SlugAsDescribed ==
    out.op = "slugify" => out.slug = Described(out.name)

\* C15, amended: the slug is that of the name without its leading and
\* trailing whitespace.
C15_SlugOfTrimmedName ==
    out.op = "slugify" => out.slug = Described(Trimmed(out.name))

\* a letter between a leading space and a trailing tab
C15_Witness ==
    /\ out.op = "slugify"
    /\ Len(out.name) >= 3
    /\ out.name[1] = " " /\ out.name[Len(out.name)] = "\t"
    /\ out.slug = <<"a">>

====
